---------------------------- MODULE Spec2Model ----------------------------
(***************************************************************************)
(* The live session controller of the Conversation component, in its three *)
(* variants:                                                               *)
(*   "auto"    src/Conversation.tsx   session started by the camera effect,*)
(*                                    callbacks guarded by isMounted       *)
(*   "manual"  src/unnamed/part_001   Start/Stop button, callbacks         *)
(*                                    unguarded, one audioContextRef       *)
(*   "batch"   src/unnamed/part_002   as "auto", tool highlight_objects,   *)
(*                                    no transcripts                       *)
(*                                                                         *)
(* Every handler of the component is one action.  A handler is written as  *)
(* a function from the heap (the atoms, the refs and the objects they      *)
(* point to) to the heap, so that a handler calling stopAISession() is the *)
(* composition the code executes.                                          *)
(*                                                                         *)
(* Environment (not code of the repository):                               *)
(*  - ai.live.connect() calls callbacks.onopen and then resolves the       *)
(*    promise it returned, before any message of the session is delivered; *)
(*    a socket that fails before opening leaves the promise pending.       *)
(*  - promise.then(cb) on a resolved promise runs cb before the next macrotask.*)
(*  - WebSocket.send() on a socket whose close() was called drops the data.*)
(*  - Every setBoundingBoxes(v) call passes a fresh array, so the atom's   *)
(*    value changes identity, `draw` is re-created (useCallback            *)
(*    [boundingBoxes]) and the camera effect, which lists `draw` among its *)
(*    dependencies, is due to run again (cleanup, then setup).             *)
(***************************************************************************)
EXTENDS Integers, Sequences, FiniteSets, TLC

\* ------------------------------------------------------------ bounds
MaxSessions == 2      \* ai.live.connect() calls in one behaviour
MaxEffects == 2       \* runs of the camera effect in one behaviour
MaxDeltas == 3        \* transcript deltas applied between two clears
MaxFrames == 1        \* outbound media frames per session
MaxAcks == 2          \* tool-call acknowledgments per session
MaxBoxTimers == 2     \* box-expiry timers armed in one behaviour
MaxChunks == 2        \* audio chunks handled per session
MaxBlobs == 1         \* canvas.toBlob() callbacks pending at a time
MaxClock == 2         \* readings of an output context's currentTime

Null == 0
Sessions == 1..MaxSessions
Effects == 1..MaxEffects
Variants == {"auto", "manual", "batch"}
Deltas == {"a", "b"}
NoText == "-"         \* the transcription field is absent from the event
Durations == {1, 2}   \* audioBuffer.duration of a decoded chunk

VARIABLES
  variant,               \* which source file is running
  connectionState,       \* ConnectionStateAtom
  transcripts,           \* TranscriptsAtom
  boundingBoxes,         \* BoundingBoxesAtom
  sessionPromiseRef,     \* refs: Null or the id of the object held
  mediaStreamRef,
  inputAudioContextRef,  \* audioContextRef in part_001
  outputAudioContextRef,
  scriptProcessorRef,
  frameIntervalRef,
  boxTimeoutRef,
  sessions,              \* per connect() call: socket, promise, contexts,
                         \* processor, frame timer, what was sent
  streams,               \* per effect run: the MediaStream it obtained
  boxTimers,             \* ids of the pending box-expiry timeouts
  nBoxTimers,            \* box-expiry timeouts armed so far
  boxDelay,              \* per box-expiry timeout: its delay in ms
  effectGen,             \* the current run of the camera effect
  mounted,               \* the component is mounted
  phase,                 \* per effect run: where setupCamera... is
  boxesTouched,          \* the effect's dependency `draw` has changed
  turnDeltas,            \* history: deltas handled per lane since the last
                         \* turn-complete or clear
  turnMixed,             \* history: an event of this turn carried both lanes
  outputStartsAs,        \* per connect() call: the state the browser gives
                         \* the output AudioContext it creates
  localStorage,          \* the keys the browser's localStorage holds
  removeItemCalls,       \* localStorage.removeItem('gemini_api_key') calls
  reloads,               \* window.location.reload() calls
  pendingBlobs,          \* canvas.toBlob() callbacks not yet run: for each,
                         \* the session whose interval made the call
  pcmBlob                \* the last pcmBlob onaudioprocess built: the
                         \* Int16Array behind its data, and as history the
                         \* samples it was made from

vars == <<variant, connectionState, transcripts, boundingBoxes,
          sessionPromiseRef, mediaStreamRef, inputAudioContextRef,
          outputAudioContextRef, scriptProcessorRef, frameIntervalRef,
          boxTimeoutRef, sessions, streams, boxTimers, nBoxTimers, boxDelay,
          effectGen, mounted, phase, boxesTouched, turnDeltas, turnMixed,
          outputStartsAs, localStorage, removeItemCalls, reloads,
          pendingBlobs, pcmBlob>>

\* The heap as one record, and the assignment of a heap to the variables.
Heap ==
  [variant |-> variant, connectionState |-> connectionState,
   transcripts |-> transcripts, boundingBoxes |-> boundingBoxes,
   sessionPromiseRef |-> sessionPromiseRef, mediaStreamRef |-> mediaStreamRef,
   inputAudioContextRef |-> inputAudioContextRef,
   outputAudioContextRef |-> outputAudioContextRef,
   scriptProcessorRef |-> scriptProcessorRef,
   frameIntervalRef |-> frameIntervalRef, boxTimeoutRef |-> boxTimeoutRef,
   sessions |-> sessions, streams |-> streams, boxTimers |-> boxTimers,
   nBoxTimers |-> nBoxTimers, boxDelay |-> boxDelay, effectGen |-> effectGen, mounted |-> mounted,
   phase |-> phase, boxesTouched |-> boxesTouched,
   turnDeltas |-> turnDeltas, turnMixed |-> turnMixed,
   outputStartsAs |-> outputStartsAs, localStorage |-> localStorage,
   removeItemCalls |-> removeItemCalls, reloads |-> reloads,
   pendingBlobs |-> pendingBlobs, pcmBlob |-> pcmBlob]

Commit(h) ==
  /\ variant' = h.variant
  /\ connectionState' = h.connectionState
  /\ transcripts' = h.transcripts
  /\ boundingBoxes' = h.boundingBoxes
  /\ sessionPromiseRef' = h.sessionPromiseRef
  /\ mediaStreamRef' = h.mediaStreamRef
  /\ inputAudioContextRef' = h.inputAudioContextRef
  /\ outputAudioContextRef' = h.outputAudioContextRef
  /\ scriptProcessorRef' = h.scriptProcessorRef
  /\ frameIntervalRef' = h.frameIntervalRef
  /\ boxTimeoutRef' = h.boxTimeoutRef
  /\ sessions' = h.sessions
  /\ streams' = h.streams
  /\ boxTimers' = h.boxTimers
  /\ nBoxTimers' = h.nBoxTimers
  /\ boxDelay' = h.boxDelay
  /\ effectGen' = h.effectGen
  /\ mounted' = h.mounted
  /\ phase' = h.phase
  /\ boxesTouched' = h.boxesTouched
  /\ turnDeltas' = h.turnDeltas
  /\ turnMixed' = h.turnMixed
  /\ outputStartsAs' = h.outputStartsAs
  /\ localStorage' = h.localStorage
  /\ removeItemCalls' = h.removeItemCalls
  /\ reloads' = h.reloads
  /\ pendingBlobs' = h.pendingBlobs
  /\ pcmBlob' = h.pcmBlob

\* A session before its connect() call.
NoSession ==
  [ws |-> "none",        \* socket: none, connecting, open, closed
   gen |-> 0,            \* effect run whose isMounted the callbacks read
                         \* (0: the callbacks read no flag)
   resolved |-> FALSE,   \* the promise connect() returned is resolved
   thenQ |-> <<>>,       \* .then callbacks waiting for the promise
   closeCalls |-> 0,     \* session.close() calls
   errored |-> FALSE,    \* the socket reported an error
   stopped |-> FALSE,    \* history: stopAISession ran on this session
   ended |-> "no",       \* history: the onerror ("error") or onclose
                         \* ("close") that ended the session
   frames |-> 0,         \* media frames sent on the socket
   acks |-> <<>>,        \* tool responses sent on the socket
   inCtx |-> "none",     \* AudioContext 16 kHz: none, running, closed
   inCloses |-> 0,
   outCtx |-> "none",    \* AudioContext 24 kHz: none, running, suspended,
                         \* closed
   outClock |-> 0,       \* its currentTime
   nextStartTime |-> 0,  \* let nextStartTime of the connect() closure
   decoding |-> <<>>,    \* onmessage calls awaiting decodeAudioData
   scheduled |-> <<>>,   \* source.start() calls made on the output context
   heard |-> 0,          \* history: audio chunks handled
   outCloses |-> 0,
   proc |-> "none",      \* ScriptProcessorNode: none, active, disconnected
   procDisconnects |-> 0,
   ftimer |-> "none",    \* frame interval: none, armed, cleared
   ftimerClears |-> 0]

NoStream == [state |-> "none", stops |-> 0]   \* none, live, stopped

NoPcm == [data |-> <<>>, from |-> <<>>]       \* no audio was captured yet

\* The state after construction; starts: the states the browser may give a
\* new output AudioContext.
InitWith(starts) ==
  /\ variant \in Variants
  /\ connectionState = "idle"
  /\ transcripts = <<>>
  /\ boundingBoxes = <<>>
  /\ sessionPromiseRef = Null
  /\ mediaStreamRef = Null
  /\ inputAudioContextRef = Null
  /\ outputAudioContextRef = Null
  /\ scriptProcessorRef = Null
  /\ frameIntervalRef = Null
  /\ boxTimeoutRef = Null
  /\ sessions = [s \in Sessions |-> NoSession]
  /\ streams = [g \in Effects |-> NoStream]
  /\ boxTimers = {}
  /\ nBoxTimers = 0
  /\ boxDelay = [id \in 1..MaxBoxTimers |-> 0]
  /\ effectGen = 1
  /\ mounted = TRUE
  /\ phase = [g \in Effects |-> IF g = 1 THEN "gum" ELSE "none"]
  /\ boxesTouched = FALSE
  /\ turnDeltas = [l \in {"user", "model"} |-> ""]
  /\ turnMixed = FALSE
  /\ outputStartsAs \in [Sessions -> starts]
  /\ localStorage = {"gemini_api_key"}
  /\ removeItemCalls = 0
  /\ reloads = 0
  /\ pendingBlobs = <<>>
  /\ pcmBlob = NoPcm

Init == InitWith({"running"})

\* ------------------------------------------------------------ helpers
Min(a, b) == IF a < b THEN a ELSE b

\* `let isMounted` of the effect run g, read by a callback: true until that
\* run's cleanup.  g = 0: the callback reads no flag (part_001).
isMounted(h, g) == g = 0 \/ (h.mounted /\ g = h.effectGen)

setConnectionState(h, v) == [h EXCEPT !.connectionState = v]

\* The argument is always a fresh array: the atom changes identity.
setBoundingBoxes(h, v) ==
  [h EXCEPT !.boundingBoxes = v, !.boxesTouched = TRUE]

\* One .then callback of the session promise, run on the resolved session s.
RunThunk(h, s, th) ==
  LET ss == h.sessions[s]
      canSend == ss.ws = "open" /\ ss.closeCalls = 0
  IN  CASE th.op = "close" ->
             [h EXCEPT !.sessions[s].closeCalls = @ + 1]
        [] th.op = "frame" ->
             IF canSend
             THEN [h EXCEPT !.sessions[s].frames = Min(@ + 1, MaxFrames)]
             ELSE h
        [] th.op = "ack" ->
             IF canSend
             THEN [h EXCEPT !.sessions[s].acks =
                               Append(@, [id |-> th.id, name |-> th.name])]
             ELSE h

\* sessionPromiseRef.current?.then(cb)
ThenOnSession(h, th) ==
  LET s == h.sessionPromiseRef
  IN  IF s = Null THEN h
      ELSE IF h.sessions[s].resolved THEN RunThunk(h, s, th)
      ELSE [h EXCEPT !.sessions[s].thenQ = Append(@, th)]

RECURSIVE RunThunks(_, _, _)
RunThunks(h, s, q) ==
  IF q = <<>> THEN h ELSE RunThunks(RunThunk(h, s, Head(q)), s, Tail(q))

\* ------------------------------------------------------------ stop
\* A faulty CloseSessionRef: the ref is not cleared after the close request.
CloseSessionRefKept(h) ==
  LET s == h.sessionPromiseRef
      h1 == ThenOnSession(h, [op |-> "close"])
  IN  IF s = Null THEN h ELSE [h1 EXCEPT !.sessions[s].stopped = TRUE]

\* A faulty CloseSessionRef: the close is asked of a resolved session only,
\* nothing is left with a promise that is still pending.
CloseSessionRefIfResolved(h) ==
  LET s == h.sessionPromiseRef
      h1 == IF h.sessions[s].resolved THEN RunThunk(h, s, [op |-> "close"])
            ELSE h
  IN  IF s = Null THEN h
      ELSE [h1 EXCEPT !.sessions[s].stopped = TRUE,
                      !.sessionPromiseRef = Null]

CloseSessionRef(h) ==
  LET s == h.sessionPromiseRef
      h1 == ThenOnSession(h, [op |-> "close"])
  IN  IF s = Null THEN h
      ELSE [h1 EXCEPT !.sessions[s].stopped = TRUE,
                      !.sessionPromiseRef = Null]

CloseInputContext(h) ==
  LET s == h.inputAudioContextRef
  IN  IF s = Null THEN h
      ELSE IF h.sessions[s].inCtx # "closed"
      THEN [h EXCEPT !.sessions[s].inCtx = "closed",
                     !.sessions[s].inCloses = @ + 1,
                     !.inputAudioContextRef = Null]
      ELSE [h EXCEPT !.inputAudioContextRef = Null]

CloseOutputContext(h) ==
  LET s == h.outputAudioContextRef
  IN  IF s = Null THEN h
      ELSE IF h.sessions[s].outCtx # "closed"
      THEN [h EXCEPT !.sessions[s].outCtx = "closed",
                     !.sessions[s].outCloses = @ + 1,
                     !.outputAudioContextRef = Null]
      ELSE [h EXCEPT !.outputAudioContextRef = Null]

DisconnectProcessor(h) ==
  LET s == h.scriptProcessorRef
  IN  IF s = Null THEN h
      ELSE [h EXCEPT !.sessions[s].proc = "disconnected",
                     !.sessions[s].procDisconnects = @ + 1,
                     !.scriptProcessorRef = Null]

ClearFrameInterval(h) ==
  LET s == h.frameIntervalRef
  IN  IF s = Null THEN h
      ELSE [h EXCEPT !.sessions[s].ftimer = "cleared",
                     !.sessions[s].ftimerClears = @ + 1,
                     !.frameIntervalRef = Null]

\* onopen: if (frameIntervalRef.current) clearInterval(...), ref overwritten next
ClearFrameIntervalIfSet(h) ==
  LET s == h.frameIntervalRef
  IN  IF s = Null THEN h
      ELSE [h EXCEPT !.sessions[s].ftimer = "cleared",
                     !.sessions[s].ftimerClears = @ + 1]

ClearBoxTimeout(h) ==
  [h EXCEPT !.boxTimers = @ \ {h.boxTimeoutRef}, !.boxTimeoutRef = Null]

\* The heap after each release of stopAISession, in the order of its
\* statements.
StopSteps(h) ==
  LET h1 == CloseSessionRef(h)
      h2 == CloseInputContext(h1)
      h3 == CloseOutputContext(h2)
      h4 == DisconnectProcessor(h3)
      h5 == ClearFrameInterval(h4)
      h6 == ClearBoxTimeout(h5)
  IN  <<h1, h2, h3, h4, h5, h6>>

stopAISession(h) ==
  LET h6 == StopSteps(h)[6]
      h7 == setConnectionState(h6, "idle")
  IN  setBoundingBoxes(h7, <<>>)

\* ------------------------------------------------------------ start
Used(h, s) == h.sessions[s].inCtx # "none"
NumSessions(h) == Cardinality({s \in Sessions : Used(h, s)})
CanConnect(h) == NumSessions(h) < MaxSessions

\* catch (err) of startAISession / startConversation
StartCatch(h, g) ==
  IF ~isMounted(h, g) THEN h
  ELSE stopAISession(setConnectionState(h, "error"))

\* A faulty ClearTranscripts: the sequence is kept.
KeepTranscripts(h) == h

\* setTranscripts([]) of the start (part_002 keeps no transcripts).
ClearTranscripts(h) ==
  IF h.variant = "batch" THEN h
  ELSE [h EXCEPT !.transcripts = <<>>,
                 !.turnDeltas = [l \in {"user", "model"} |-> ""],
                 !.turnMixed = FALSE]

\* The capture pipeline of onopen: the ScriptProcessor and the frame interval.
StartCapture(h, s) ==
  LET h1 == [h EXCEPT !.sessions[s].proc = "active",
                      !.scriptProcessorRef = s]
      h2 == ClearFrameIntervalIfSet(h1)
  IN  [h2 EXCEPT !.sessions[s].ftimer = "armed", !.frameIntervalRef = s]

\* A faulty Connect: the capture pipeline is started with the connect() call.
ConnectCapturing(h, n, g) ==
  StartCapture([h EXCEPT !.sessions[n].ws = "connecting",
                         !.sessions[n].gen = g,
                         !.sessionPromiseRef = n], n)

\* sessionPromiseRef.current = ai.live.connect({..., callbacks}), for the new
\* session n whose callbacks close over the isMounted of effect run g.
Connect(h, n, g) ==
  [h EXCEPT !.sessions[n].ws = "connecting",
            !.sessions[n].gen = g,
            !.sessionPromiseRef = n]

\* The body of startAISession(stream) / startConversation() after its early
\* returns.  g: the effect run whose isMounted the callbacks close over
\* (0 in part_001).  fail: which AudioContext constructor throws, if any.
startAISession(h, g, fail) ==
  LET n  == NumSessions(h) + 1
      h1 == setConnectionState(h, "connecting")
      h2 == ClearTranscripts(h1)
      h3 == setBoundingBoxes(h2, <<>>)
      h4 == [h3 EXCEPT !.sessions[n].inCtx = "running",
                       !.inputAudioContextRef = n]
      h5 == [h4 EXCEPT !.sessions[n].outCtx = h.outputStartsAs[n],
                       !.sessions[n].nextStartTime = 0,
                       !.outputAudioContextRef =
                          IF h.variant = "manual" THEN @ ELSE n]
  IN  CASE fail = "in"  -> StartCatch(h3, g)
        [] fail = "out" -> StartCatch(h4, g)
        [] OTHER -> Connect(h5, n, g)

isProcessing(h) == h.connectionState \in {"connected", "connecting"}

\* ------------------------------------------------------------ onopen
onopen(h, s) ==
  IF ~isMounted(h, h.sessions[s].gen) THEN h
  ELSE StartCapture(setConnectionState(h, "connected"), s)

\* The socket opens: connect() calls onopen, then resolves its promise, and
\* the .then callbacks queued meanwhile run in order.
SocketOpen(h, s) ==
  LET h1 == [h EXCEPT !.sessions[s].ws = "open"]
      h2 == onopen(h1, s)
      h3 == [h2 EXCEPT !.sessions[s].resolved = TRUE,
                       !.sessions[s].thenQ = <<>>]
  IN  RunThunks(h3, s, h2.sessions[s].thenQ)

\* ------------------------------------------------------------ onerror, onclose
\* The messages of the ErrorEvent the transport delivers.
InvalidKeyMessage == "API key not valid. Please pass a valid API key."
NetworkMessage == "Network error"

\* e.message.includes('API key not valid')
SaysKeyNotValid(e) == e \in {InvalidKeyMessage}

\* window.location.reload(): the document is discarded with its sockets,
\* its pending promises and its timers; no cleanup runs.
Reload(h) ==
  [h EXCEPT !.reloads = @ + 1,
            !.mounted = FALSE,
            !.phase = [g \in Effects |-> IF @[g] = "none" THEN "none"
                                         ELSE "done"],
            !.boxTimers = {},
            !.pendingBlobs = <<>>,
            !.sessions = [s \in Sessions |->
               [@[s] EXCEPT !.ws = IF @ \in {"connecting", "open"}
                                   THEN "closed" ELSE @,
                            !.decoding = <<>>]]]

\* localStorage.removeItem('gemini_api_key'); window.location.reload();
ForgetKey(h) ==
  Reload([h EXCEPT !.localStorage = @ \ {"gemini_api_key"},
                   !.removeItemCalls = @ + 1])

\* if (e.message.includes('API key not valid')): alert; part_001 also
\* removes the stored key and reloads.
OnInvalidKey(h, e) ==
  IF SaysKeyNotValid(e) /\ h.variant = "manual" THEN ForgetKey(h) ELSE h

onerror(h, s, e) ==
  IF ~isMounted(h, h.sessions[s].gen) THEN h
  ELSE OnInvalidKey(stopAISession(setConnectionState(
                      [h EXCEPT !.sessions[s].ended = "error"], "error")), e)

onclose(h, s) ==
  IF ~isMounted(h, h.sessions[s].gen) THEN h
  ELSE stopAISession(setConnectionState(
         [h EXCEPT !.sessions[s].ended = IF @ = "no" THEN "close" ELSE @],
         "closed"))

\* ------------------------------------------------------------ onmessage
\* A faulty AppendDelta: the delta is put in front of the entry's text.
AppendDeltaPrepending(prev, source, text) ==
  IF prev # <<>> /\ prev[Len(prev)].source = source
                 /\ ~prev[Len(prev)].isFinal
  THEN [prev EXCEPT ![Len(prev)].text = text \o @]
  ELSE Append(prev, [source |-> source, text |-> text, isFinal |-> FALSE])

\* A faulty AppendDelta: a final entry of the lane is extended as well.
AppendDeltaIgnoringFinal(prev, source, text) ==
  IF prev # <<>> /\ prev[Len(prev)].source = source
  THEN [prev EXCEPT ![Len(prev)].text = @ \o text]
  ELSE Append(prev, [source |-> source, text |-> text, isFinal |-> FALSE])

\* A faulty AppendDelta: the delta replaces the text of the running entry.
AppendDeltaOverwriting(prev, source, text) ==
  IF prev # <<>> /\ prev[Len(prev)].source = source
                 /\ ~prev[Len(prev)].isFinal
  THEN [prev EXCEPT ![Len(prev)].text = text]
  ELSE Append(prev, [source |-> source, text |-> text, isFinal |-> FALSE])

\* setTranscripts((prev) => ...) of a transcription delta
AppendDelta(prev, source, text) ==
  IF prev # <<>> /\ prev[Len(prev)].source = source
                 /\ ~prev[Len(prev)].isFinal
  THEN [prev EXCEPT ![Len(prev)].text = @ \o text]
  ELSE Append(prev, [source |-> source, text |-> text, isFinal |-> FALSE])

\* A faulty MarkFinal: the flag of every entry is inverted.
MarkFinalToggling(prev) ==
  [i \in 1..Len(prev) |-> [prev[i] EXCEPT !.isFinal = ~@]]

\* setTranscripts((prev) => prev.map((t) => ({...t, isFinal: true})))
MarkFinal(prev) == [i \in 1..Len(prev) |-> [prev[i] EXCEPT !.isFinal = TRUE]]

\* if (inputTranscription) ... else if (outputTranscription) ...
ApplyTranscription(prev, m) ==
  IF m.input # NoText THEN AppendDelta(prev, "user", m.input)
  ELSE IF m.output # NoText THEN AppendDelta(prev, "model", m.output)
  ELSE prev

ApplyTurnComplete(prev, m) == IF m.turnComplete THEN MarkFinal(prev) ELSE prev

\* History of the deltas the handled events carried, per lane and turn.
NoteDeltas(h, m) ==
  LET add(l, d) == IF d = NoText THEN h.turnDeltas[l]
                   ELSE h.turnDeltas[l] \o d
      mixed == h.turnMixed \/ (m.input # NoText /\ m.output # NoText)
  IN  IF m.turnComplete
      THEN [h EXCEPT !.turnDeltas = [l \in {"user", "model"} |-> ""],
                     !.turnMixed = FALSE]
      ELSE [h EXCEPT !.turnDeltas = [l \in {"user", "model"} |->
                                       add(l, IF l = "user" THEN m.input
                                              ELSE m.output)],
                     !.turnMixed = mixed]

HandleTranscripts(h, m) ==
  IF h.variant = "batch" THEN h
  ELSE [NoteDeltas(h, m) EXCEPT
          !.transcripts = ApplyTurnComplete(ApplyTranscription(@, m), m)]

\* The name of the registered tool.
HighlightTool(v) ==
  IF v = "batch" THEN "highlight_objects" ELSE "highlight_object"

NoBox == <<>>         \* box_2d is absent from the object

\* A faulty NewBox: the tuple is read as [xmin, ymin, xmax, ymax].
NewBoxTransposed(obj) ==
  [x |-> obj.box_2d[1], y |-> obj.box_2d[2],
   width |-> obj.box_2d[3] - obj.box_2d[1],
   height |-> obj.box_2d[4] - obj.box_2d[2],
   label |-> obj.label]

\* Box geometry is kept in thousandths: the field x holds 1000 * (xmin / 1000).
NewBox(obj) ==
  [x |-> obj.box_2d[2], y |-> obj.box_2d[1],
   width |-> obj.box_2d[4] - obj.box_2d[2],
   height |-> obj.box_2d[3] - obj.box_2d[1],
   label |-> obj.label]

\* The delay of the box-expiry timeout, in ms.
BoxWindow(v) == IF v = "batch" THEN 1000 ELSE 3000

\* A faulty ArmBoxTimeout: the pending timeout is not cancelled.
ArmBoxTimeoutKeepingOld(h) ==
  LET id == h.nBoxTimers + 1
  IN  [h EXCEPT !.boxTimers = @ \cup {id},
                !.boxTimeoutRef = id,
                !.nBoxTimers = id,
                !.boxDelay = (id :> BoxWindow(h.variant)) @@ @]

\* if (boxTimeoutRef.current) clearTimeout(...); boxTimeoutRef.current = setTimeout(...)
ArmBoxTimeout(h) ==
  LET id == h.nBoxTimers + 1
  IN  [h EXCEPT !.boxTimers = (@ \ {h.boxTimeoutRef}) \cup {id},
                !.boxTimeoutRef = id,
                !.nBoxTimers = id,
                !.boxDelay = (id :> BoxWindow(h.variant)) @@ @]

\* A faulty ShowBoxes: the new boxes are added to the ones on display.
ShowBoxesMerging(h, boxes) ==
  ArmBoxTimeout(setBoundingBoxes(h, h.boundingBoxes \o boxes))

\* A faulty ShowBoxes: no expiry timeout is armed for the boxes.
ShowBoxesUntimed(h, boxes) == setBoundingBoxes(h, boxes)

ShowBoxes(h, boxes) == ArmBoxTimeout(setBoundingBoxes(h, boxes))

\* sessionPromiseRef.current?.then((session) => session.sendToolResponse(...))
Acknowledge(h, fc) ==
  ThenOnSession(h, [op |-> "ack", id |-> fc.id, name |-> fc.name])

\* One iteration of `for (const fc of message.toolCall.functionCalls)`.
\* The result is the heap and whether the iteration threw a TypeError
\* (reading a property of an undefined args, or destructuring an undefined
\* box_2d), which ends the handler.
HandleCall(h, fc) ==
  LET objs == fc.args.objects
      ack(hh) == [heap |-> Acknowledge(hh, fc), threw |-> FALSE]
      throw == [heap |-> h, threw |-> TRUE]
  IN  IF fc.name # HighlightTool(h.variant) THEN ack(h)
      ELSE IF fc.args.kind = "absent" THEN throw
      ELSE IF fc.args.kind = "empty" THEN ack(h)
      ELSE IF h.variant = "batch"
      THEN IF \E i \in 1..Len(objs) : objs[i].box_2d = NoBox THEN throw
           ELSE ack(ShowBoxes(h, [i \in 1..Len(objs) |-> NewBox(objs[i])]))
      ELSE IF objs[1].box_2d = NoBox THEN ack(h)
           ELSE ack(ShowBoxes(h, <<NewBox(objs[1])>>))

\* for (const fc of message.toolCall.functionCalls): the heap, and whether
\* an iteration threw.
RECURSIVE HandleCalls(_, _)
HandleCalls(h, calls) ==
  IF calls = <<>> THEN [heap |-> h, threw |-> FALSE]
  ELSE LET r == HandleCall(h, Head(calls))
       IN  IF r.threw THEN r ELSE HandleCalls(r.heap, Tail(calls))

\* message.serverContent?.modelTurn?.parts[0]?.inlineData.data is present
HasAudio(m) == "audio" \in DOMAIN m

Max(a, b) == IF a > b THEN a ELSE b

\* The output context the audio branch uses: outputAudioContextRef.current,
\* or in part_001 the outputAudioContext of the startConversation closure.
OutputContext(h, s) ==
  IF h.variant = "manual" THEN s ELSE h.outputAudioContextRef

\* if (base64Audio && outputAudioContextRef.current?.state === 'running');
\* part_001: if (base64Audio)
PlaysAudio(h, s) ==
  \/ h.variant = "manual"
  \/ /\ OutputContext(h, s) # Null
     /\ h.sessions[OutputContext(h, s)].outCtx = "running"

\* A faulty MoveCursor: the cursor is set to the clock reading.
MoveCursorToClock(cursor, now) == now

\* nextStartTime = Math.max(nextStartTime, oac.currentTime)
MoveCursor(cursor, now) == Max(cursor, now)

\* The audio branch up to `await decodeAudioData(...)`.  Each waiting call
\* keeps, as history, the clock reading and the cursor it found, whether the
\* context was suspended, whether it has been the only call in flight, and
\* the chunk's number in arrival order.
HandleAudio(h, s, m) ==
  LET oac == OutputContext(h, s)
      ss == h.sessions[s]
      now == h.sessions[oac].outClock
      call == [dur |-> m.audio, oac |-> oac, at |-> now,
               seq |-> ss.heard + 1,
               cursor |-> ss.nextStartTime,
               suspended |-> h.sessions[oac].outCtx = "suspended",
               alone |-> ss.decoding = <<>>]
      waiting == [i \in 1..Len(ss.decoding) |->
                    [ss.decoding[i] EXCEPT !.alone = FALSE]]
  IN  IF ~HasAudio(m) THEN h
      ELSE IF ~PlaysAudio(h, s)
      THEN [h EXCEPT !.sessions[s].heard = @ + 1]
      ELSE [h EXCEPT !.sessions[s].heard = @ + 1,
                     !.sessions[s].nextStartTime = MoveCursor(@, now),
                     !.sessions[s].decoding = Append(waiting, call)]

\* A faulty ScheduleChunk: the cursor is not advanced by the duration.
ScheduleChunkInPlace(h, s) ==
  LET ss == h.sessions[s]
      call == Head(ss.decoding)
  IN  [h EXCEPT !.sessions[s].decoding = Tail(@),
                !.sessions[call.oac].scheduled =
                   Append(@, [start |-> ss.nextStartTime, dur |-> call.dur,
                              at |-> call.at, cursor |-> call.cursor,
                              suspended |-> call.suspended,
                              alone |-> call.alone, seq |-> call.seq])]

\* The audio branch after the await: createBufferSource, start(nextStartTime),
\* nextStartTime += audioBuffer.duration.
ScheduleChunk(h, s) ==
  LET ss == h.sessions[s]
      call == Head(ss.decoding)
  IN  [h EXCEPT !.sessions[s].decoding = Tail(@),
                !.sessions[s].nextStartTime = @ + call.dur,
                !.sessions[call.oac].scheduled =
                   Append(@, [start |-> ss.nextStartTime, dur |-> call.dur,
                              at |-> call.at, cursor |-> call.cursor,
                              suspended |-> call.suspended,
                              alone |-> call.alone, seq |-> call.seq])]

onmessage(h, s, m) ==
  IF ~isMounted(h, h.sessions[s].gen) THEN h
  ELSE LET r == HandleCalls(HandleTranscripts(h, m), m.calls)
       IN  IF r.threw THEN r.heap ELSE HandleAudio(r.heap, s, m)

\* resumeAudio: outputAudioContextRef.current.resume() on a suspended context
resumeAudio(h) ==
  LET s == h.outputAudioContextRef
  IN  IF s # Null /\ h.sessions[s].outCtx = "suspended"
      THEN [h EXCEPT !.sessions[s].outCtx = "running"]
      ELSE h

\* ------------------------------------------------------------ the camera effect
\* mediaStreamRef.current?.getTracks().forEach((track) => track.stop())
StopTracks(h) ==
  LET g == h.mediaStreamRef
  IN  IF g = Null THEN h
      ELSE [h EXCEPT !.streams[g].state = "stopped",
                     !.streams[g].stops = @ + 1,
                     !.mediaStreamRef = Null]

\* The function the effect returns.  isMounted = false is the change of
\* effectGen or mounted made by the action that runs the cleanup.
EffectCleanup(h) == StopTracks(stopAISession(h))

\* getUserMedia() of effect run g resolves with a stream.
StreamGranted(h, g) ==
  IF ~isMounted(h, g)
  THEN [h EXCEPT !.streams[g] = [state |-> "stopped", stops |-> 1],
                 !.phase[g] = "done"]
  ELSE [h EXCEPT !.streams[g] = [state |-> "live", stops |-> 0],
                 !.mediaStreamRef = g,
                 !.phase[g] = "play"]

\* await videoRef.current.play() of effect run g resolves.
VideoPlaying(h, g, fail) ==
  LET h1 == [h EXCEPT !.phase[g] = "done"]
  IN  IF h.variant = "manual" THEN h1 ELSE startAISession(h1, g, fail)

\* ------------------------------------------------------------ capture
\* A captured sample is a multiple of 2^-16 in [-1, 1], held as its
\* numerator: SampleUnit stands for 1.0.
SampleUnit == 65536

\* The integer part of a / b, b > 0: the fraction is discarded.
Truncate(a, b) == IF a >= 0 THEN a \div b ELSE -((-a) \div b)

\* inputData[i] * 32768, truncated as the store into a typed array does:
\* (sample / SampleUnit) * 32768 = sample / (SampleUnit / 32768).
Scaled(sample) == Truncate(sample, SampleUnit \div 32768)

\* The value an Int16Array element holds after the integer n is stored:
\* n modulo 2^16, read as a signed 16-bit number.
ToInt16(n) ==
  LET m == n % 65536
  IN  IF m >= 32768 THEN m - 65536 ELSE m

\* for (i < l) int16[i] = inputData[i] * 32768
ToPcm16(inputData) ==
  [i \in 1..Len(inputData) |-> ToInt16(Scaled(inputData[i]))]

\* scriptProcessor.onaudioprocess
onaudioprocess(h, inputData) ==
  ThenOnSession([h EXCEPT !.pcmBlob = [data |-> ToPcm16(inputData),
                                       from |-> inputData]],
                [op |-> "frame"])

\* The interval callback: if (videoRef.current && tempCanvas) the video is
\* drawn and toBlob() is called; its callback runs in a later task.  The
\* video element is rendered for as long as the component is mounted.
FrameSample(h, s) ==
  IF h.mounted THEN [h EXCEPT !.pendingBlobs = Append(@, s)] ELSE h

\* A faulty BlobCallback: the frame is sent without looking at the blob.
BlobCallbackUnchecked(h, blob) ==
  ThenOnSession([h EXCEPT !.pendingBlobs = Tail(@)], [op |-> "frame"])

\* The toBlob callback: if (blob) the frame is sent on the session promise
\* the ref holds now.  blob is null when the video has no picture yet.
BlobCallback(h, blob) ==
  LET h1 == [h EXCEPT !.pendingBlobs = Tail(@)]
  IN  IF blob THEN ThenOnSession(h1, [op |-> "frame"]) ELSE h1

\* The box-expiry timeout callback.
BoxExpiry(h) == [setBoundingBoxes(h, <<>>) EXCEPT !.boxTimeoutRef = Null]

\* ------------------------------------------------------------ inbound events
Cup == [label |-> "cup", box_2d |-> <<100, 100, 300, 300>>]
Book == [label |-> "book", box_2d |-> <<0, 0, 500, 1000>>]
Unboxed == [label |-> "pen", box_2d |-> NoBox]

ArgShapes(v) ==
  {[kind |-> "absent", objects |-> <<>>], [kind |-> "empty", objects |-> <<>>]}
  \cup (IF v = "batch"
        THEN {[kind |-> "given", objects |-> <<Cup, Book>>],
              [kind |-> "given", objects |-> <<Cup, Unboxed>>]}
        ELSE {[kind |-> "given", objects |-> <<Cup>>],
              [kind |-> "given", objects |-> <<Unboxed>>]})

FunctionCalls(v, i) ==
  [id : {i}, name : {HighlightTool(v), "other_tool"}, args : ArgShapes(v)]

CallLists(v) ==
  {<<c>> : c \in FunctionCalls(v, 1)}
  \cup {<<c, d>> : c \in FunctionCalls(v, 1), d \in FunctionCalls(v, 2)}

TranscriptEvents ==
  [input : Deltas \cup {NoText}, output : Deltas \cup {NoText},
   turnComplete : BOOLEAN, calls : {<<>>}]

ToolCallEvents(v) ==
  [input : {NoText}, output : {NoText}, turnComplete : {FALSE},
   calls : CallLists(v)]

Events(v) == TranscriptEvents \cup ToolCallEvents(v)

\* The events of the lifecycle specification: one delta, one highlight call.
CoreEvents(v) ==
  {[input |-> "a", output |-> NoText, turnComplete |-> FALSE, calls |-> <<>>],
   [input |-> NoText, output |-> NoText, turnComplete |-> FALSE,
    calls |-> <<[id |-> 1, name |-> HighlightTool(v),
                 args |-> [kind |-> "given",
                           objects |-> IF v = "batch" THEN <<Cup, Book>>
                                       ELSE <<Cup>>]]>>]}

NumDeltas(m) ==
  (IF m.input # NoText THEN 1 ELSE 0) + (IF m.output # NoText THEN 1 ELSE 0)

RECURSIVE TextLength(_)
TextLength(tr) ==
  IF tr = <<>> THEN 0 ELSE Len(Head(tr).text) + TextLength(Tail(tr))

\* The bounds of the model on what an event may add.
EventFits(m) ==
  /\ TextLength(transcripts) + NumDeltas(m) <= MaxDeltas
  /\ nBoxTimers + Len(m.calls) <= MaxBoxTimers
  /\ sessionPromiseRef # Null =>
       Len(sessions[sessionPromiseRef].acks) + Len(m.calls) <= MaxAcks

FrameFits ==
  sessionPromiseRef # Null =>
    sessions[sessionPromiseRef].frames
      + Len(sessions[sessionPromiseRef].thenQ) < MaxFrames

\* ------------------------------------------------------------ actions
GetUserMediaResolves(g) ==
  /\ phase[g] = "gum"
  /\ Commit(StreamGranted(Heap, g))

\* getUserMedia() or play() rejects: catch, alert.
CameraFails(g) ==
  /\ phase[g] \in {"gum", "play"}
  /\ Commit([Heap EXCEPT !.phase[g] = "done"])

PlayResolves(g) ==
  /\ phase[g] = "play"
  /\ variant # "manual" => CanConnect(Heap)
  /\ \E fail \in {"none", "in", "out"} :
       Commit(VideoPlaying(Heap, g, fail))

\* A faulty StartConversation: the media stream is not looked at.
StartConversationUnchecked ==
  /\ variant = "manual" /\ mounted /\ ~isProcessing(Heap)
  /\ CanConnect(Heap)
  /\ \E fail \in {"none", "in", "out"} :
       Commit(startAISession(Heap, 0, fail))

\* The Start Session button of part_001.
StartConversation ==
  /\ variant = "manual" /\ mounted /\ ~isProcessing(Heap)
  /\ \/ /\ mediaStreamRef = Null
        /\ UNCHANGED vars
     \/ /\ mediaStreamRef # Null
        /\ CanConnect(Heap)
        /\ \E fail \in {"none", "in", "out"} :
             Commit(startAISession(Heap, 0, fail))

\* The Stop Session button of part_001.
StopConversation ==
  /\ variant = "manual" /\ mounted /\ isProcessing(Heap)
  /\ Commit(stopAISession(Heap))

Unmount ==
  /\ mounted
  /\ Commit([EffectCleanup(Heap) EXCEPT !.mounted = FALSE])

\* A render after boundingBoxes changed: the effect's cleanup, then its
\* setup again.
EffectRerun ==
  /\ mounted /\ boxesTouched /\ effectGen < MaxEffects
  /\ Commit([EffectCleanup(Heap) EXCEPT !.effectGen = effectGen + 1,
                                        !.phase[effectGen + 1] = "gum"])

SocketOpens(s) ==
  /\ sessions[s].ws = "connecting" /\ ~sessions[s].errored
  /\ Commit(SocketOpen(Heap, s))

Message(s, events) ==
  /\ sessions[s].ws = "open" /\ ~sessions[s].errored
  /\ \E m \in events :
       /\ EventFits(m)
       /\ Commit(onmessage(Heap, s, m))

\* A transport error that says nothing about the credential.
SocketError(s) ==
  /\ sessions[s].ws \in {"connecting", "open"} /\ ~sessions[s].errored
  /\ Commit(onerror([Heap EXCEPT !.sessions[s].errored = TRUE], s,
                    NetworkMessage))

\* The remote refuses the credential.
CredentialError(s) ==
  /\ sessions[s].ws \in {"connecting", "open"} /\ ~sessions[s].errored
  /\ Commit(onerror([Heap EXCEPT !.sessions[s].errored = TRUE], s,
                    InvalidKeyMessage))

SocketClose(s) ==
  /\ sessions[s].ws \in {"connecting", "open"}
  /\ Commit(onclose([Heap EXCEPT !.sessions[s].ws = "closed"], s))

\* The buffers of the lifecycle specification: their samples are left out,
\* no step of the lifecycle reads them.
CoreBuffers == {<<>>}

\* The samples of the capture specification: the ends of the range, the
\* values next to them, and values whose product has a fraction.
Samples ==
  {-SampleUnit, 1 - SampleUnit, -32769, -3, -1, 0, 1, 3, 32768,
   SampleUnit - 2, SampleUnit - 1, SampleUnit}
Buffers == {<<a>> : a \in Samples} \cup {<<a, -a>> : a \in Samples}

AudioProcess(s, buffers) ==
  /\ sessions[s].proc = "active" /\ sessions[s].inCtx = "running"
  /\ FrameFits
  /\ \E inputData \in buffers : Commit(onaudioprocess(Heap, inputData))

FrameTick(s) ==
  /\ sessions[s].ftimer = "armed"
  /\ Len(pendingBlobs) < MaxBlobs
  /\ Commit(FrameSample(Heap, s))

BlobReady ==
  /\ pendingBlobs # <<>>
  /\ \E blob \in BOOLEAN :
       /\ blob => FrameFits
       /\ Commit(BlobCallback(Heap, blob))

BoxTimerFires(id) ==
  /\ id \in boxTimers
  /\ Commit([BoxExpiry(Heap) EXCEPT !.boxTimers = @ \ {id}])

Next ==
  \/ \E g \in Effects : GetUserMediaResolves(g)
  \/ \E g \in Effects : CameraFails(g)
  \/ \E g \in Effects : PlayResolves(g)
  \/ StartConversation
  \/ StopConversation
  \/ Unmount
  \/ EffectRerun
  \/ \E s \in Sessions : SocketOpens(s)
  \/ \E s \in Sessions : Message(s, CoreEvents(variant))
  \/ \E s \in Sessions : SocketError(s)
  \/ \E s \in Sessions : SocketClose(s)
  \/ \E s \in Sessions : AudioProcess(s, CoreBuffers)
  \/ \E s \in Sessions : FrameTick(s)
  \/ BlobReady
  \/ \E id \in 1..MaxBoxTimers : BoxTimerFires(id)

Spec == Init /\ [][Next]_vars

\* The event-handling specification: one session is brought up and every
\* event shape is delivered to it.
NextEvents ==
  \/ \E g \in Effects : GetUserMediaResolves(g)
  \/ \E g \in Effects : PlayResolves(g)
  \/ StartConversation
  \/ \E s \in Sessions : SocketOpens(s)
  \/ \E s \in Sessions : Message(s, Events(variant))
  \/ \E id \in 1..MaxBoxTimers : BoxTimerFires(id)

SpecEvents == Init /\ [][NextEvents]_vars

\* The error specification: sessions are brought up and the transport
\* reports errors of both kinds.
NextErrors ==
  \/ \E g \in Effects : GetUserMediaResolves(g)
  \/ \E g \in Effects : PlayResolves(g)
  \/ StartConversation
  \/ StopConversation
  \/ \E s \in Sessions : SocketOpens(s)
  \/ \E s \in Sessions : Message(s, CoreEvents(variant))
  \/ \E s \in Sessions : SocketError(s)
  \/ \E s \in Sessions : CredentialError(s)
  \/ \E s \in Sessions : SocketClose(s)

SpecErrors == Init /\ [][NextErrors]_vars

\* The audio specification: sessions are brought up, with output contexts
\* that start running or suspended, and audio chunks are delivered.  Clock
\* ticks and further events may run while a decode is awaited: a superset of
\* the behaviours with a decoder that does not yield to other tasks.
AudioEvents ==
  [input : {NoText}, output : {NoText}, turnComplete : {FALSE},
   calls : {<<>>}, audio : Durations]

\* await decodeAudioData(...) of the oldest waiting onmessage call resolves.
DecodeResolves(s) ==
  /\ sessions[s].decoding # <<>>
  /\ Commit(ScheduleChunk(Heap, s))

\* An audio event reaches session s.
AudioMessage(s) ==
  /\ sessions[s].ws = "open" /\ ~sessions[s].errored
  /\ sessions[s].heard < MaxChunks
  /\ \E m \in AudioEvents : Commit(onmessage(Heap, s, m))

\* The currentTime of a running output context moves on.
ClockTick(s) ==
  /\ sessions[s].outCtx = "running" /\ sessions[s].outClock < MaxClock
  /\ Commit([Heap EXCEPT !.sessions[s].outClock = @ + 1])

\* A click on the page of Conversation.tsx / part_002.
ResumeAudio ==
  /\ variant # "manual" /\ mounted
  /\ Commit(resumeAudio(Heap))

NextAudio ==
  \/ \E g \in Effects : GetUserMediaResolves(g)
  \/ \E g \in Effects : PlayResolves(g)
  \/ StartConversation
  \/ \E s \in Sessions : SocketOpens(s)
  \/ \E s \in Sessions : AudioMessage(s)
  \/ \E s \in Sessions : DecodeResolves(s)
  \/ \E s \in Sessions : ClockTick(s)
  \/ ResumeAudio

SpecAudio == InitWith({"running", "suspended"}) /\ [][NextAudio]_vars

\* A faulty decoder: other tasks run before its promise resolves.
DecodeYieldsToTasks == TRUE

\* decodeAudioData of ./utils is a pure transform without I/O and is not a
\* suspension point: its promise resolves before the next task runs.
DecodeYields == FALSE

\* A task may run: no continuation of an awaited decode is due first.
TaskMayRun == DecodeYields \/ \A s \in Sessions : sessions[s].decoding = <<>>

\* The events of the ordering specification: a delta, a highlight call and
\* an audio chunk in one event, and an audio chunk alone.
OrderEvents(v) ==
  {[input |-> "a", output |-> NoText, turnComplete |-> FALSE,
    calls |-> <<[id |-> 1, name |-> HighlightTool(v),
                 args |-> [kind |-> "given",
                           objects |-> IF v = "batch" THEN <<Cup, Book>>
                                       ELSE <<Cup>>]]>>,
    audio |-> 1],
   [input |-> NoText, output |-> "b", turnComplete |-> FALSE, calls |-> <<>>,
    audio |-> 2]}

\* The next event reaches session s.
DeliverEvent(s) ==
  /\ TaskMayRun
  /\ sessions[s].heard < MaxChunks
  /\ Message(s, OrderEvents(variant))

\* The ordering specification: one timeline of tasks, each followed by the
\* continuations it left.
NextOrder ==
  \/ \E g \in Effects : TaskMayRun /\ GetUserMediaResolves(g)
  \/ \E g \in Effects : TaskMayRun /\ PlayResolves(g)
  \/ TaskMayRun /\ StartConversation
  \/ \E s \in Sessions : TaskMayRun /\ SocketOpens(s)
  \/ \E s \in Sessions : DeliverEvent(s)
  \/ \E s \in Sessions : DecodeResolves(s)
  \/ \E s \in Sessions : TaskMayRun /\ ClockTick(s)
  \/ \E id \in 1..MaxBoxTimers : TaskMayRun /\ BoxTimerFires(id)

SpecOrder == Init /\ [][NextOrder]_vars

\* The capture specification: one session is brought up and audio buffers
\* over the sample range are captured.
NextCapture ==
  \/ \E g \in Effects : GetUserMediaResolves(g)
  \/ \E g \in Effects : PlayResolves(g)
  \/ StartConversation
  \/ \E s \in Sessions : SocketOpens(s)
  \/ \E s \in Sessions : AudioProcess(s, Buffers)

SpecCapture == Init /\ [][NextCapture]_vars

\* The expiry specification: sessions are brought up, shown boxes and
\* stopped, and a pending box-expiry timeout fires in the end: the browser
\* runs the callback of every timeout that is not cleared.
NextExpiry ==
  \/ \E g \in Effects : GetUserMediaResolves(g)
  \/ \E g \in Effects : PlayResolves(g)
  \/ StartConversation
  \/ StopConversation
  \/ Unmount
  \/ \E s \in Sessions : SocketOpens(s)
  \/ \E s \in Sessions : Message(s, CoreEvents(variant))
  \/ \E s \in Sessions : SocketClose(s)
  \/ \E id \in 1..MaxBoxTimers : BoxTimerFires(id)

SpecExpiry ==
  /\ Init /\ [][NextExpiry]_vars
  /\ WF_vars(\E id \in 1..MaxBoxTimers : BoxTimerFires(id))

\* The transport settles the connect() of session s: the socket opens, or
\* it fails or is closed before it opened.
ConnectSettles(s) ==
  /\ sessions[s].ws = "connecting"
  /\ (SocketOpens(s) \/ SocketError(s) \/ SocketClose(s))

\* The closing specification: sessions are started and stopped at any
\* point, and every connect() is settled by the transport in the end.  A
\* socket that is open stays open for as long as nobody closes it.
NextClose ==
  \/ \E g \in Effects : GetUserMediaResolves(g)
  \/ \E g \in Effects : PlayResolves(g)
  \/ StartConversation
  \/ StopConversation
  \/ Unmount
  \/ \E s \in Sessions : SocketOpens(s)
  \/ \E s \in Sessions : SocketError(s)
  \/ \E s \in Sessions : SocketClose(s)

SpecClose ==
  /\ Init /\ [][NextClose]_vars
  /\ \A s \in Sessions : WF_vars(ConnectSettles(s))

\* The box-reporting specification: one session is brought up and tool
\* calls reporting boxes over a grid of coordinates are delivered to it.
Coords == {0, 300, 1000}
BoxTuples ==
  {<<ymin, xmin, ymax, xmax>> : ymin \in Coords, xmin \in Coords,
                                ymax \in Coords, xmax \in Coords}
  \cup {Cup.box_2d, Book.box_2d}
BoxObjects == [label : {"cup", "book"}, box_2d : BoxTuples]

BoxBatches(v) ==
  IF v = "batch"
  THEN {<<o, Cup>> : o \in BoxObjects} \cup {<<Book, o>> : o \in BoxObjects}
  ELSE {<<o>> : o \in BoxObjects}

BoxEvents(v) ==
  {[input |-> NoText, output |-> NoText, turnComplete |-> FALSE,
    calls |-> <<[id |-> 1, name |-> HighlightTool(v),
                 args |-> [kind |-> "given", objects |-> objs]]>>] :
     objs \in BoxBatches(v)}

NextBoxes ==
  \/ \E g \in Effects : GetUserMediaResolves(g)
  \/ \E g \in Effects : PlayResolves(g)
  \/ StartConversation
  \/ \E s \in Sessions : SocketOpens(s)
  \/ \E s \in Sessions : Message(s, BoxEvents(variant))

SpecBoxes == Init /\ [][NextBoxes]_vars

\* ------------------------------------------------------------ claims
\* C1: for every session, no outbound audio or image frame is sent, and
\* neither the capture processor nor the frame-sampling timer exists, before
\* the session-open acknowledgment of that session; ConnectionState becomes
\* connected only in a step in which a session's open is acknowledged.
CaptureOnlyAfterOpen ==
  \A s \in Sessions :
    (sessions[s].frames > 0 \/ sessions[s].proc # "none"
       \/ sessions[s].ftimer # "none")
    => sessions[s].resolved

ConnectedOnlyByOpen ==
  (connectionState # "connected" /\ connectionState' = "connected")
  => \E s \in Sessions : ~sessions[s].resolved /\ sessions'[s].resolved

C1_NothingBeforeOpen == []CaptureOnlyAfterOpen /\ [][ConnectedOnlyByOpen]_vars

C1_Witness ==
  \E s \in Sessions :
    /\ sessions[s].resolved /\ sessions[s].frames > 0
    /\ sessions[s].proc = "active" /\ sessions[s].ftimer = "armed"
    /\ connectionState = "connected"

\* C2: stopAISession() in any reachable state ends with ConnectionState idle
\* and an empty box set, and a second stopAISession() right after it changes
\* nothing: no field, no ref and no release counter.
C2_StopIdempotent ==
  LET once  == stopAISession(Heap)
      twice == stopAISession(once)
  IN  /\ once.connectionState = "idle"
      /\ once.boundingBoxes = <<>>
      /\ twice = once

\* A state right after a stop that released an open session, its contexts,
\* its processor and its frame timer.
C2_Witness ==
  /\ connectionState = "idle" /\ boundingBoxes = <<>>
  /\ sessionPromiseRef = Null /\ Heap = stopAISession(Heap)
  /\ \E s \in Sessions :
       /\ sessions[s].stopped /\ sessions[s].closeCalls = 1
       /\ sessions[s].inCtx = "closed" /\ sessions[s].proc = "disconnected"
       /\ sessions[s].ftimer = "cleared"

\* The resource slots of every session: contexts, processor, frame timer.
ResourceSlots(ss) ==
  [s \in Sessions |-> <<ss[s].inCtx, ss[s].outCtx, ss[s].proc, ss[s].ftimer>>]

\* A stream callback of session s runs in this step.
CallbackOf(s) ==
  \/ SocketOpens(s)
  \/ Message(s, CoreEvents(variant))
  \/ SocketError(s)
  \/ SocketClose(s)

\* C3: once stopAISession() has run on a session, a stream callback of that
\* session that fires later changes neither ConnectionState, the transcripts,
\* the box set nor any resource slot.
C3_LateCallbackIsNoOp ==
  [][\A s \in Sessions :
       (sessions[s].stopped /\ CallbackOf(s))
       => /\ UNCHANGED <<connectionState, transcripts, boundingBoxes,
                         sessionPromiseRef, inputAudioContextRef,
                         outputAudioContextRef, scriptProcessorRef,
                         frameIntervalRef, boxTimeoutRef, boxTimers>>
          /\ ResourceSlots(sessions') = ResourceSlots(sessions)]_vars

\* An exit path has run for session s: stopAISession() ran on it, or its
\* start threw after the first AudioContext was created.
Exited(s) ==
  \/ sessions[s].stopped
  \/ sessions[s].inCtx # "none" /\ sessions[s].ws = "none"

SessionReleased(s) ==
  /\ sessions[s].inCtx = "closed"
  /\ sessions[s].outCtx \in {"none", "closed"}
  /\ sessions[s].proc # "active"
  /\ sessions[s].ftimer # "armed"

ReleasedAtMostOnce(s) ==
  /\ sessions[s].closeCalls <= 1
  /\ sessions[s].inCloses <= 1 /\ sessions[s].outCloses <= 1
  /\ sessions[s].procDisconnects <= 1 /\ sessions[s].ftimerClears <= 1

\* C4: on every exit path every acquired member of the resource set (media
\* stream, both audio contexts, capture processor, frame timer, box timer)
\* is released, and no member is released more than once.
C4_ExitReleasesAll ==
  /\ \A s \in Sessions : Exited(s) => SessionReleased(s)
  /\ \A s \in Sessions : ReleasedAtMostOnce(s)
  /\ \A g \in Effects : streams[g].stops <= 1
  /\ ((\E s \in Sessions : Exited(s)) /\ sessionPromiseRef = Null)
     => /\ \A g \in Effects : streams[g].state # "live"
        /\ boxTimers = {}

\* C5: at most one session handle is open or being opened at any time.
C5_AtMostOneHandle ==
  Cardinality({s \in Sessions : sessions[s].ws \in {"connecting", "open"}}) <= 1

\* The controller's current session, with its callbacks still mounted.
Current(s) ==
  /\ sessionPromiseRef = s
  /\ isMounted(Heap, sessions[s].gen)

\* C6: a transport error on the connecting or connected session leaves
\* ConnectionState = error, and error is left only by the next start.
C6_ErrorIsTerminal ==
  [][/\ \A s \in Sessions :
          (SocketError(s) /\ Current(s)
             /\ connectionState \in {"connecting", "connected"})
          => connectionState' = "error"
     /\ (connectionState = "error" /\ connectionState' # "error")
        => connectionState' = "connecting"]_vars

\* C7: a remote close of the connected session leaves ConnectionState =
\* closed, and closed is left only by the next start.
C7_ClosedIsTerminal ==
  [][/\ \A s \in Sessions :
          (SocketClose(s) /\ Current(s) /\ sessions[s].closeCalls = 0
             /\ connectionState = "connected")
          => connectionState' = "closed"
     /\ (connectionState = "closed" /\ connectionState' # "closed")
        => connectionState' = "connecting"]_vars

\* The session that delivers an event is the live one: it is the controller's
\* current session, open, and no close was requested on it.
Live(s) ==
  /\ Current(s)
  /\ sessions[s].resolved /\ sessions[s].ws = "open"
  /\ sessions[s].closeCalls = 0

AcksOf(calls) ==
  [i \in 1..Len(calls) |-> [id |-> calls[i].id, name |-> calls[i].name]]

\* C8: for every function call of every tool-call event a live session
\* receives, exactly one acknowledgment with that call's id and name is
\* sent, whatever the name and the arguments.
C8_EveryCallAcknowledged ==
  [][\A s \in Sessions : \A m \in ToolCallEvents(variant) :
       (Live(s) /\ EventFits(m) /\ Commit(onmessage(Heap, s, m)))
       => sessions'[s].acks = sessions[s].acks \o AcksOf(m.calls)]_vars

Lanes == {"user", "model"}

\* The text a lane has assembled in the running turn: its entries that are
\* not final yet, in sequence order.
RECURSIVE LaneText(_, _)
LaneText(tr, l) ==
  IF tr = <<>> THEN ""
  ELSE (IF Head(tr).source = l /\ ~Head(tr).isFinal THEN Head(tr).text
        ELSE "") \o LaneText(Tail(tr), l)

AllFinal(tr) == \A i \in 1..Len(tr) : tr[i].isFinal

\* C9: with one delta per inbound event, the text a lane has assembled in
\* the running turn is the concatenation of the lane's deltas in delivery
\* order, and an event carrying the turn-complete signal leaves every entry
\* of the sequence final.
C9_LaneTextIsConcatenation ==
  /\ ~turnMixed =>
       \A l \in Lanes : LaneText(transcripts, l) = turnDeltas[l]
  /\ \A s \in Sessions : \A m \in TranscriptEvents :
       (Live(s) /\ m.turnComplete)
       => AllFinal(onmessage(Heap, s, m).transcripts)

C9_Witness ==
  /\ variant # "batch"
  /\ \E i \in 1..Len(transcripts) :
       transcripts[i].text = "ab" /\ transcripts[i].isFinal

\* C10: a delta of lane L extends the last entry exactly when that entry
\* has source L and is not final, and otherwise becomes a new non-final
\* entry at the end; so two neighbouring entries of one lane are separated
\* by a turn-complete.
C10_AppendOrNewEntry ==
  /\ \A s \in Sessions : \A m \in TranscriptEvents :
       (Live(s) /\ variant # "batch" /\ NumDeltas(m) = 1 /\ ~m.turnComplete)
       => LET L == IF m.input # NoText THEN "user" ELSE "model"
              d == IF m.input # NoText THEN m.input ELSE m.output
              prev == transcripts
              next == onmessage(Heap, s, m).transcripts
              n == Len(prev)
          IN  IF n > 0 /\ prev[n].source = L /\ ~prev[n].isFinal
              THEN /\ Len(next) = n
                   /\ \A i \in 1..(n - 1) : next[i] = prev[i]
                   /\ next[n] = [source |-> L, text |-> prev[n].text \o d,
                                 isFinal |-> FALSE]
              ELSE next = prev \o <<[source |-> L, text |-> d,
                                     isFinal |-> FALSE]>>
  /\ \A i \in 1..(Len(transcripts) - 1) :
       transcripts[i].source = transcripts[i + 1].source
       => transcripts[i].isFinal

C10_Witness ==
  /\ Len(transcripts) = 2
  /\ transcripts[1] = [source |-> "user", text |-> "ab", isFinal |-> TRUE]
  /\ transcripts[2] = [source |-> "user", text |-> "a", isFinal |-> FALSE]

\* A step that starts a session: startAISession / startConversation runs.
StartStep ==
  \/ StartConversation
  \/ \E g \in Effects : PlayResolves(g)

GainsSuffix(a, b) == b = a \/ \E d \in Deltas : b = a \o d

AppendOnly(prev, next) ==
  /\ Len(next) >= Len(prev)
  /\ \A i \in 1..Len(prev) :
       /\ next[i].source = prev[i].source
       /\ GainsSuffix(prev[i].text, next[i].text)
       /\ i < Len(prev) => next[i].text = prev[i].text
       /\ prev[i].isFinal => next[i] = prev[i]

\* C11: in every step that does not start a session the transcript sequence
\* is append-only: it does not get shorter, no entry changes its place or
\* lane, only the last entry's text changes and only by gaining a suffix,
\* and a final entry does not change at all.
C11_TranscriptsAppendOnly ==
  [][~StartStep => AppendOnly(transcripts, transcripts')]_vars

C11_Witness ==
  /\ Len(transcripts) = 2
  /\ transcripts[1] = [source |-> "user", text |-> "a", isFinal |-> TRUE]
  /\ transcripts[2] = [source |-> "model", text |-> "ba", isFinal |-> FALSE]

\* The function call names the highlight tool and reports a box for each of
\* its objects.
ReportsBoxes(fc) ==
  /\ fc.name = HighlightTool(variant)
  /\ fc.args.kind = "given"
  /\ \A i \in 1..Len(fc.args.objects) : fc.args.objects[i].box_2d # NoBox

ReportedBoxes(fc) ==
  [i \in 1..Len(fc.args.objects) |-> NewBox(fc.args.objects[i])]

\* C12: after a live session has handled a tool call that names the
\* highlight tool and reports boxes, the box set is exactly the boxes of that
\* call, whatever was on display before.
C12_BoxSetReplaced ==
  \A s \in Sessions : \A m \in ToolCallEvents(variant) :
    (Live(s) /\ Len(m.calls) = 1 /\ ReportsBoxes(m.calls[1]))
    => onmessage(Heap, s, m).boundingBoxes = ReportedBoxes(m.calls[1])

\* The second batch of a session is on display.
C12_Witness ==
  /\ nBoxTimers = 2
  /\ boundingBoxes # <<>>
  /\ \E s \in Sessions : Live(s) /\ Len(sessions[s].acks) = 2
  /\ Len(boundingBoxes) = IF variant = "batch" THEN 2 ELSE 1

\* A step in which stopAISession() runs.
StopStep ==
  \/ StopConversation
  \/ Unmount
  \/ EffectRerun
  \/ \E s \in Sessions : SocketError(s) \/ SocketClose(s)

\* The one timeout that may be pending: the last one armed, held by the ref.
SingleBoxTimer ==
  /\ Cardinality(boxTimers) <= 1
  /\ \A id \in boxTimers :
       /\ id = nBoxTimers /\ id = boxTimeoutRef
       /\ boxDelay[id] = IF variant = "batch" THEN 1000 ELSE 3000

\* A batch leaves its own, new timeout as the only one pending.
BatchRearms ==
  \A s \in Sessions : \A m \in CoreEvents(variant) :
    (Live(s) /\ Len(m.calls) = 1 /\ ReportsBoxes(m.calls[1]))
    => LET h == onmessage(Heap, s, m)
       IN  /\ h.nBoxTimers = nBoxTimers + 1
           /\ h.boxTimers = {h.nBoxTimers}
           /\ h.boxTimeoutRef = h.nBoxTimers

\* The displayed boxes are emptied only by the expiry of the last batch's
\* timeout, by a stop or by a start.
EmptiedOnlyByExpiry ==
  (boundingBoxes # <<>> /\ boundingBoxes' = <<>>)
  => \/ BoxTimerFires(nBoxTimers)
     \/ StopStep
     \/ StartStep

BoxTimerInvariant == SingleBoxTimer /\ BatchRearms

\* C13: at most one box-expiry timeout is pending, it is the one the last
\* batch armed with the variant's window T (3000 ms, 1000 ms in part_002),
\* every batch cancels the pending one and arms a new one, and the boxes on
\* display are emptied only by that timeout's expiry, a stop or a start.
C13_SingleExpiryTimer ==
  /\ []BoxTimerInvariant
  /\ [][EmptiedOnlyByExpiry]_vars

\* The second batch's timeout has replaced the first one.
C13_Witness ==
  /\ nBoxTimers = 2 /\ boxTimers = {2} /\ boxTimeoutRef = 2
  /\ boxDelay[1] # 0
  /\ boundingBoxes # <<>>

\* Box b is the box of the reported object o, in thousandths.
DerivedFrom(b, o) ==
  LET ymin == o.box_2d[1]
      xmin == o.box_2d[2]
      ymax == o.box_2d[3]
      xmax == o.box_2d[4]
  IN  /\ b.x = xmin /\ b.y = ymin
      /\ b.width = xmax - xmin /\ b.height = ymax - ymin
      /\ b.label = o.label

\* C14: for every reported tuple [ymin, xmin, ymax, xmax] the box has
\* x = xmin/1000, y = ymin/1000, width = (xmax-xmin)/1000, height =
\* (ymax-ymin)/1000 and the object's label, the boxes stand in the order of
\* the reported objects, and the two examples give (0.1, 0.1, 0.2, 0.2) and
\* (0, 0, 1.0, 0.5).
C14_BoxGeometry ==
  /\ \A s \in Sessions : \A m \in BoxEvents(variant) :
       Live(s)
       => LET objs == m.calls[1].args.objects
              boxes == onmessage(Heap, s, m).boundingBoxes
          IN  /\ Len(boxes) = Len(objs)
              /\ \A i \in 1..Len(objs) : DerivedFrom(boxes[i], objs[i])
  /\ NewBox(Cup) = [x |-> 100, y |-> 100, width |-> 200, height |-> 200,
                    label |-> "cup"]
  /\ NewBox(Book) = [x |-> 0, y |-> 0, width |-> 1000, height |-> 500,
                     label |-> "book"]

\* The box of the object {book, [0, 300, 300, 1000]} is on display.
C14_Witness ==
  \E i \in 1..Len(boundingBoxes) :
    boundingBoxes[i] = [x |-> 300, y |-> 0, width |-> 700, height |-> 300,
                        label |-> "book"]

CursorStartsAtZero ==
  \A s \in Sessions : sessions[s].heard = 0 => sessions[s].nextStartTime = 0

CursorNeverDecreases ==
  \A s \in Sessions :
    sessions'[s].nextStartTime >= sessions[s].nextStartTime

\* C15: the playback cursor of a session is 0 until the session's first
\* audio chunk and never decreases.
C15_CursorMonotone ==
  []CursorStartsAtZero /\ [][CursorNeverDecreases]_vars

\* The clock moved the cursor for the first chunk, the durations after it.
C15_Witness ==
  \E s \in Sessions :
    /\ Len(sessions[s].scheduled) = 2
    /\ sessions[s].scheduled[1].start > 0
    /\ sessions[s].nextStartTime
         = sessions[s].scheduled[2].start + sessions[s].scheduled[2].dur

Chunks(s) == sessions[s].scheduled

NoOverlap ==
  \A s \in Sessions : \A k \in 1..(Len(Chunks(s)) - 1) :
    Chunks(s)[k + 1].start >= Chunks(s)[k].start + Chunks(s)[k].dur

\* A chunk starts no earlier than the cursor and the clock reading its
\* handler found, and exactly at their maximum when no other chunk was in
\* flight with it.
StartsAtMax ==
  \A s \in Sessions : \A k \in 1..Len(Chunks(s)) :
    LET c == Chunks(s)[k]
    IN  /\ c.start >= c.at /\ c.start >= c.cursor
        /\ c.alone => c.start = (IF c.cursor > c.at THEN c.cursor ELSE c.at)

C17_SuspendedChunkDropped ==
  \A s \in Sessions :
    /\ \A k \in 1..Len(Chunks(s)) : ~Chunks(s)[k].suspended
    /\ \A i \in 1..Len(sessions[s].decoding) :
         ~sessions[s].decoding[i].suspended

\* ------------------------------------------------------------ C18
\* A step that starts a session: the state becomes connecting, or a session
\* handle or an audio context is created.
StartsSession ==
  \/ connectionState # "connecting" /\ connectionState' = "connecting"
  \/ sessionPromiseRef' \notin {Null, sessionPromiseRef}
  \/ \E n \in Sessions : ~Used(Heap, n) /\ sessions'[n] # sessions[n]

\* The media stream the start works on has been obtained: the stream the
\* component holds (part_001), the stream of the effect run that awaits
\* play() (Conversation.tsx, part_002).
StreamObtained ==
  IF variant = "manual"
  THEN mediaStreamRef # Null /\ streams[mediaStreamRef].state = "live"
  ELSE \E g \in Effects : phase[g] = "play" /\ streams[g].state # "none"

\* getUserMedia() of effect run g is refused.
MediaRefused(g) ==
  phase[g] = "gum" /\ phase'[g] = "done" /\ streams'[g].state = "none"

NoticeOnly ==
  UNCHANGED <<connectionState, transcripts, boundingBoxes, sessions,
              sessionPromiseRef, inputAudioContextRef, outputAudioContextRef,
              scriptProcessorRef, frameIntervalRef, mediaStreamRef>>

NothingStarted ==
  (\A g \in Effects : streams[g].state = "none")
    => /\ connectionState = "idle"
       /\ NumSessions(Heap) = 0
       /\ sessionPromiseRef = Null
       /\ transcripts = <<>> /\ boundingBoxes = <<>>

\* C18: when the media stream is unavailable, a start is a no-op apart from
\* the notice: no step starts a session (connecting, a session handle, an
\* audio context) unless the stream it works on has been obtained, a refused
\* getUserMedia() changes neither the connection state, the sessions, the
\* transcripts nor the boxes, and while no stream has ever been obtained the
\* state is idle with no session, no transcript entry and no box.
C18_NoStartWithoutStream ==
  /\ []NothingStarted
  /\ [][/\ StartsSession => StreamObtained
        /\ \A g \in Effects : MediaRefused(g) => NoticeOnly]_vars

\* The camera was refused and nothing was started.
C18_Witness ==
  \E g \in Effects :
    /\ phase[g] = "done" /\ streams[g].state = "none"
    /\ connectionState = "idle" /\ NumSessions(Heap) = 0

\* ------------------------------------------------------------ C19
\* A start succeeds: connect() is called for a new session.
SessionBegins ==
  \E n \in Sessions : sessions[n].ws = "none" /\ sessions'[n].ws = "connecting"

\* C19: every successful start sets the state to connecting and leaves the
\* transcript sequence and the box set empty, so that the new session begins
\* with no entry and no box of an earlier session.
C19_StartClears ==
  [][SessionBegins => /\ connectionState' = "connecting"
                      /\ transcripts' = <<>>
                      /\ boundingBoxes' = <<>>]_vars

\* A second session has begun, after the first one handled a highlight call:
\* the state is connecting and nothing of the first session is shown.
C19_Witness ==
  /\ sessions[1].acks # <<>>
  /\ sessions[2].ws = "connecting" /\ sessionPromiseRef = 2
  /\ connectionState = "connecting"
  /\ transcripts = <<>> /\ boundingBoxes = <<>>

\* ------------------------------------------------------------ C20
TornDown(s) ==
  /\ sessionPromiseRef' = Null
  /\ sessions'[s].inCtx = "closed"
  /\ sessions'[s].proc # "active" /\ sessions'[s].ftimer # "armed"

\* C20: an invalid-credential error delivered to the connected session
\* leaves the state error with the session torn down, removes the stored
\* credential exactly once and forces a reload; an error of another kind
\* never removes the stored credential.
C20_InvalidCredential ==
  [][\A s \in Sessions :
       /\ (CredentialError(s) /\ Current(s) /\ connectionState = "connected")
          => /\ connectionState' = "error"
             /\ TornDown(s)
             /\ "gemini_api_key" \notin localStorage'
             /\ removeItemCalls' = removeItemCalls + 1
             /\ reloads' = reloads + 1
       /\ SocketError(s) => UNCHANGED <<localStorage, removeItemCalls>>]_vars

\* ------------------------------------------------------------ C21
\* The state becomes connecting.
EntersConnecting ==
  connectionState # "connecting" /\ connectionState' = "connecting"

\* A session was ended by its onerror or by its onclose.
EndedByTransport == \E s \in Sessions : sessions[s].ended # "no"

\* C21: once a session has ended by a transport error or a remote close,
\* the state becomes connecting again only by an explicit start of the user
\* (StartConversation): the controller never reconnects by itself.
C21_NoRetry ==
  [][(EndedByTransport /\ EntersConnecting) => StartConversation]_vars

\* ------------------------------------------------------------ C22
\* The controller holds no pending timer.
TimersCanceled(h) == h.frameIntervalRef = Null /\ h.boxTimeoutRef = Null

\* Between heaps a and b the session handle, an audio context or the capture
\* processor was released.
ReleasesOther(a, b) ==
  \/ a.sessionPromiseRef # b.sessionPromiseRef
  \/ a.inputAudioContextRef # b.inputAudioContextRef
  \/ a.outputAudioContextRef # b.outputAudioContextRef
  \/ a.scriptProcessorRef # b.scriptProcessorRef

\* C22: in a teardown run from any state the component can be in, the frame
\* timer and the box-expiry timer are both canceled before the first release
\* of the session handle, an audio context or the capture processor.
C22_TimersCanceledFirst ==
  mounted =>
    LET tr == <<Heap>> \o StopSteps(Heap)
    IN  \A i \in 1..(Len(tr) - 1) :
          ReleasesOther(tr[i], tr[i + 1]) => TimersCanceled(tr[i])

\* ------------------------------------------------------------ C23
\* The function call names the highlight tool and has no args, no geometry,
\* or an object without box_2d.
Malformed(fc) == fc.name = HighlightTool(variant) /\ ~ReportsBoxes(fc)

HasGeometry(obj) == obj.box_2d # NoBox

\* The function call names the highlight tool and at least one of its
\* objects has geometry; the boxes of those objects.
ShowsBoxes(fc) ==
  /\ fc.name = HighlightTool(variant) /\ fc.args.kind = "given"
  /\ \E i \in 1..Len(fc.args.objects) : HasGeometry(fc.args.objects[i])

WellFormedBoxes(fc) ==
  LET objs == SelectSeq(fc.args.objects, HasGeometry)
  IN  [i \in 1..Len(objs) |-> NewBox(objs[i])]

\* C23: when a live session handles a tool-call event that holds a malformed
\* item, every function call of the event is acknowledged, the objects with
\* geometry of the last call that has some are on display, and
\* ConnectionState and the session resources are unchanged.
C23_MalformedItemSkipped ==
  \A s \in Sessions : \A m \in ToolCallEvents(variant) :
    (Live(s) /\ \E i \in 1..Len(m.calls) : Malformed(m.calls[i]))
    => LET after == onmessage(Heap, s, m)
       IN  /\ after.sessions[s].acks = sessions[s].acks \o AcksOf(m.calls)
           /\ after.connectionState = connectionState
           /\ ResourceSlots(after.sessions) = ResourceSlots(sessions)
           /\ \A i \in 1..Len(m.calls) :
                (/\ ShowsBoxes(m.calls[i])
                 /\ \A j \in (i + 1)..Len(m.calls) : ~ShowsBoxes(m.calls[j]))
                => after.boundingBoxes = WellFormedBoxes(m.calls[i])

\* ------------------------------------------------------------ C24
\* C24: two stopAISession() calls in a row, from any state the mounted
\* component can be in (before any start, or with a session that produced
\* transcript entries), end with ConnectionState idle, an empty transcript
\* sequence and an empty box set.
C24_StopLeavesNothing ==
  mounted =>
    LET twice == stopAISession(stopAISession(Heap))
    IN  /\ twice.connectionState = "idle"
        /\ twice.transcripts = <<>>
        /\ twice.boundingBoxes = <<>>

\* ------------------------------------------------------------ C25
\* The state becomes connected.
EntersConnected ==
  connectionState # "connected" /\ connectionState' = "connected"

\* C25: ConnectionState becomes connected only from connecting, and becomes
\* connecting only from idle, error or closed; so the open of a session that
\* was stopped while connecting does not take the state from idle to
\* connected.
C25_StateOrder ==
  [][/\ EntersConnected => connectionState = "connecting"
     /\ EntersConnecting => connectionState \in {"idle", "error", "closed"}]_vars

\* ------------------------------------------------------------ C26
ArmedOnlyWhileConnected ==
  \A s \in Sessions :
    sessions[s].ftimer = "armed" => connectionState = "connected"

\* Nothing the controller shows or holds changes and nothing is sent or
\* queued for sending.
NothingDone ==
  /\ UNCHANGED <<connectionState, transcripts, boundingBoxes,
                 sessionPromiseRef, inputAudioContextRef,
                 outputAudioContextRef, scriptProcessorRef, frameIntervalRef,
                 boxTimeoutRef>>
  /\ \A n \in Sessions :
       /\ sessions'[n].frames = sessions[n].frames
       /\ sessions'[n].thenQ = sessions[n].thenQ

\* A deferred callback runs after stopAISession() ran on its session: a tick
\* of the session's frame interval, or the toBlob callback of such a tick.
LateFrameCallback ==
  \/ \E s \in Sessions : sessions[s].stopped /\ FrameTick(s)
  \/ /\ pendingBlobs # <<>> /\ sessions[Head(pendingBlobs)].stopped
     /\ BlobReady

\* A box-expiry callback runs while no session is held.
LateBoxCallback ==
  /\ sessionPromiseRef = Null
  /\ \E id \in 1..MaxBoxTimers : BoxTimerFires(id)

\* C26: the frame interval is armed only while ConnectionState is
\* connected, and a frame tick, a toBlob callback or a box-expiry callback
\* that runs after the stop of its session sends no frame and changes no
\* state.
C26_DeferredCallbacksInert ==
  /\ []ArmedOnlyWhileConnected
  /\ [][(LateFrameCallback \/ LateBoxCallback) => NothingDone]_vars

\* ------------------------------------------------------------ C27
\* Chunks are scheduled in the order they arrived.
ChunksInArrivalOrder ==
  \A s \in Sessions : \A k \in 1..(Len(Chunks(s)) - 1) :
    Chunks(s)[k].seq < Chunks(s)[k + 1].seq

\* When a session handles an event, nothing an earlier event caused is
\* outstanding: no chunk waits to be scheduled and no acknowledgment waits
\* to be sent.
EarlierEventsDone ==
  \A s \in Sessions :
    Message(s, OrderEvents(variant))
    => /\ \A n \in Sessions : sessions[n].decoding = <<>>
       /\ sessions[s].thenQ = <<>>

InUnit(v) == 0 <= v /\ v <= 1000

WellFormed(b) ==
  /\ InUnit(b.x) /\ InUnit(b.y) /\ InUnit(b.width) /\ InUnit(b.height)
  /\ b.width > 0 /\ b.height > 0

\* C28: with the coordinates of every highlight call integers in [0, 1000],
\* every box on display has x, y, width and height in [0, 1] and a positive
\* width and height.
C28_BoxesWellFormed ==
  \A i \in 1..Len(boundingBoxes) : WellFormed(boundingBoxes[i])

\* ------------------------------------------------------------ C29
\* C29: a tick of an armed frame interval that finds no video element, and
\* a toBlob callback that gets no blob, send nothing and change nothing:
\* ConnectionState, the refs and every session, its frame interval
\* included, stay as they are, so the next tick samples again.
C29_EmptyTickSkipped ==
  /\ \A s \in Sessions :
       (sessions[s].ftimer = "armed" /\ ~mounted)
       => FrameSample(Heap, s) = Heap
  /\ pendingBlobs # <<>>
     => BlobCallback(Heap, FALSE) = [Heap EXCEPT !.pendingBlobs = Tail(@)]

\* A tick of the connected session has drawn the video and its toBlob
\* callback is due, with the interval still armed.
C29_Witness ==
  \E s \in Sessions :
    /\ pendingBlobs = <<s>> /\ sessionPromiseRef = s
    /\ sessions[s].ftimer = "armed" /\ sessions[s].resolved
    /\ connectionState = "connected"

\* ------------------------------------------------------------ C30
\* An event that carries the turn-complete signal and nothing else.
TurnCompleteEvent ==
  [input |-> NoText, output |-> NoText, turnComplete |-> TRUE, calls |-> <<>>]

\* The two sequences differ in isFinal flags at most.
SameButFlags(a, b) ==
  /\ Len(a) = Len(b)
  /\ \A i \in 1..Len(a) : a[i].source = b[i].source /\ a[i].text = b[i].text

\* C30: handling the turn-complete signal twice in a row leaves the same
\* transcript sequence as handling it once, and handling it changes isFinal
\* flags only: the entries, their order, sources and texts stay.
C30_TurnCompleteIdempotent ==
  \A s \in Sessions :
    Live(s) =>
      LET once  == onmessage(Heap, s, TurnCompleteEvent)
          twice == onmessage(once, s, TurnCompleteEvent)
      IN  /\ twice.transcripts = once.transcripts
          /\ SameButFlags(once.transcripts, transcripts)

\* A live session shows two entries of which one is still open: the signal
\* has a flag to change.
C30_Witness ==
  \E s \in Sessions :
    /\ Live(s) /\ Len(transcripts) = 2
    /\ transcripts[1].isFinal /\ ~transcripts[2].isFinal

\* ------------------------------------------------------------ C31
\* The 16-bit value v is the one sample s is to give: s * 32768 with the
\* fraction discarded, within the 16-bit range and on the side of zero s is.
Pcm16Of(v, s) ==
  /\ v = Scaled(s)
  /\ -32768 <= v /\ v <= 32767
  /\ s > 0 => v >= 0
  /\ s < 0 => v <= 0

\* C31: every value of the Int16Array behind a captured pcmBlob is its
\* sample times 32768 truncated toward zero, lies in [-32768, 32767] and has
\* the sign of the sample; the sample 1.0 does not come out negative.
C31_PcmConversion ==
  \A i \in 1..Len(pcmBlob.data) : Pcm16Of(pcmBlob.data[i], pcmBlob.from[i])

\* ------------------------------------------------------------ C32
\* In the Start/Stop variant session s was stopped and a later start has
\* made another session the controller's current one.
Superseded(s) ==
  /\ variant = "manual"
  /\ sessions[s].stopped
  /\ sessionPromiseRef \notin {Null, s}

\* Nothing of the current session changes: the state, the transcripts, the
\* boxes, the timers, the handle and the session's own record.
CurrentSessionKept ==
  /\ UNCHANGED <<connectionState, transcripts, boundingBoxes,
                 sessionPromiseRef, frameIntervalRef, boxTimeoutRef,
                 boxTimers>>
  /\ sessions'[sessionPromiseRef] = sessions[sessionPromiseRef]

\* C32: in the Start/Stop variant, after a stop followed by a new start, a
\* callback of the earlier session (onopen, onmessage, onerror, or the
\* onclose its own close request causes) changes nothing of the new
\* session: not the state, the transcripts, the boxes, the timers or the
\* session handle.
C32_EarlierSessionIgnored ==
  [][\A s \in Sessions : (Superseded(s) /\ CallbackOf(s))
                          => CurrentSessionKept]_vars

\* ------------------------------------------------------------ C33
\* A live session handles a highlight call that puts boxes on display.
HighlightHandled ==
  \E s \in Sessions :
    /\ Live(s)
    /\ Message(s, CoreEvents(variant))
    /\ nBoxTimers' # nBoxTimers

\* The box set is replaced or cleared, or the render that follows such a
\* change runs the effects whose dependencies changed with it.
BoxSetStep ==
  \/ HighlightHandled
  \/ \E id \in 1..MaxBoxTimers : BoxTimerFires(id)
  \/ EffectRerun

\* The session, the media stream and the capture resources stay.
SessionKept ==
  /\ UNCHANGED <<connectionState, sessionPromiseRef, mediaStreamRef, streams,
                 inputAudioContextRef, outputAudioContextRef,
                 scriptProcessorRef, frameIntervalRef>>
  /\ ResourceSlots(sessions') = ResourceSlots(sessions)

\* C33: replacing or clearing the box set does not tear the session down:
\* neither the step that changes the boxes nor the render it causes changes
\* ConnectionState, the session handle, the media stream or the capture
\* resources; the camera effect is not run again, cleanup first, because
\* the box set changed.
C33_BoxChangeKeepsSession == [][BoxSetStep => SessionKept]_vars

\* ------------------------------------------------------------ C34
\* While boxes are on display the timeout the ref holds is pending.
BoxesHaveTimer ==
  boundingBoxes # <<>> => (boxTimers # {} /\ boxTimeoutRef \in boxTimers)

\* C34: whenever the box set is not empty a box-expiry timeout is pending,
\* and with every pending timeout firing in the end, a box set that is not
\* empty is empty again later: no box stays on display for ever.
C34_BoxesExpire ==
  /\ []BoxesHaveTimer
  /\ (boundingBoxes # <<>>) ~> (boundingBoxes = <<>>)

\* The connected session shows boxes and their timeout is pending.
C34_Witness ==
  /\ boundingBoxes # <<>> /\ boxTimers = {boxTimeoutRef}
  /\ connectionState = "connected"
  /\ \E s \in Sessions : Live(s) /\ sessions[s].acks # <<>>

\* ------------------------------------------------------------ C35
\* The close request is the last thing asked of a session: the controller
\* does not hold a session it asked to close, and nothing waits behind a
\* close request in the queue of its promise.
NothingAfterClose ==
  \A n \in Sessions :
    LET q == sessions[n].thenQ
    IN  /\ sessions[n].closeCalls > 0 => sessionPromiseRef # n
        /\ \A i \in 1..Len(q) :
             q[i].op = "close" => (i = Len(q) /\ sessionPromiseRef # n)

\* While session s handles an event nothing is sent on another session and
\* nothing is queued for another session.
SendsOnOwnSession(s) ==
  \A n \in Sessions \ {s} :
    /\ sessions'[n].acks = sessions[n].acks
    /\ sessions'[n].thenQ = sessions[n].thenQ

\* C35: every tool-call acknowledgment is sent on the session that
\* delivered the call, never on the handle of a later session, and nothing
\* is sent on a handle once its close was requested.
C35_AcksOnOwnSession ==
  /\ []NothingAfterClose
  /\ [][\A s \in Sessions :
          Message(s, CoreEvents(variant)) => SendsOnOwnSession(s)]_vars

\* ------------------------------------------------------------ C36
\* The sequence after both deltas of event m were applied to prev, in one
\* order or the other.
BothApplied(prev, m) ==
  {ApplyTurnComplete(
     AppendDelta(AppendDelta(prev, "user", m.input), "model", m.output), m),
   ApplyTurnComplete(
     AppendDelta(AppendDelta(prev, "model", m.output), "user", m.input), m)}

\* C36: when one inbound event carries an input-transcription delta and an
\* output-transcription delta, both are applied to the transcript sequence.
C36_BothDeltasApplied ==
  \A s \in Sessions : \A m \in TranscriptEvents :
    (Live(s) /\ variant # "batch" /\ NumDeltas(m) = 2)
    => onmessage(Heap, s, m).transcripts \in BothApplied(transcripts, m)

\* ------------------------------------------------------------ C37
\* No session handle is held and no frame interval, box-expiry timeout or
\* capture processor is active.
NothingActive ==
  /\ sessionPromiseRef = Null
  /\ frameIntervalRef = Null /\ scriptProcessorRef = Null
  /\ boxTimeoutRef = Null /\ boxTimers = {}
  /\ \A s \in Sessions :
       sessions[s].ftimer # "armed" /\ sessions[s].proc # "active"

\* C37: whenever ConnectionState is idle, no session handle is held and no
\* frame-sampling timer, box-expiry timer or capture processor is active.
C37_IdleHoldsNothing == connectionState = "idle" => NothingActive

\* ------------------------------------------------------------ C38
\* Effect run g has been disposed: its cleanup ran.
Disposed(g) == phase[g] # "none" /\ ~isMounted(Heap, g)

\* The handle of session s is open or being opened and no close was asked.
HandleInUse(s) ==
  sessions[s].ws \in {"connecting", "open"} /\ ~sessions[s].stopped

\* The stream of a disposed effect run is not live, and after the component
\* is gone no session handle is in use.
DisposedReleased ==
  /\ \A g \in Effects : Disposed(g) => streams[g].state # "live"
  /\ ~mounted => \A s \in Sessions : ~HandleInUse(s)

\* A session is begun for an effect run only while the run is not disposed.
BeginsWhileMounted ==
  \A n \in Sessions :
    (sessions[n].ws = "none" /\ sessions'[n].ws = "connecting")
    => \A g \in Effects : sessions'[n].gen = g => ~Disposed(g)

\* C38: when the component is disposed while getUserMedia() or play() is
\* pending, the stream that was obtained is released and no session is
\* opened afterwards; after disposal no session handle is open or being
\* opened.
C38_DisposalStartsNothing == []DisposedReleased /\ [][BeginsWhileMounted]_vars

\* ------------------------------------------------------------ C39
\* The handle of session s is closed: close() was called on it, or the
\* transport ended it or never opened it.
HandleClosed(s) ==
  \/ sessions[s].closeCalls > 0
  \/ sessions[s].ws = "closed"
  \/ sessions[s].errored

\* The close request of a stopped session was made or waits for the
\* promise of the session to resolve.
CloseRequested(s) ==
  \/ sessions[s].closeCalls > 0
  \/ \E i \in 1..Len(sessions[s].thenQ) : sessions[s].thenQ[i].op = "close"

StoppedCloseRequested ==
  \A s \in Sessions : sessions[s].stopped => CloseRequested(s)

\* C39: every session stopAISession() ran on is closed in the end, also
\* when it was stopped while connecting: the close request then waits for
\* the connect to resolve and is made when it does.
C39_StoppedSessionClosed ==
  /\ []StoppedCloseRequested
  /\ \A s \in Sessions : sessions[s].stopped ~> HandleClosed(s)

\* A session that was stopped while connecting has opened and close() was
\* called on it once.
C39_Witness ==
  \E s \in Sessions :
    /\ sessions[s].stopped /\ sessions[s].ws = "open"
    /\ ~sessions[s].errored /\ sessions[s].closeCalls = 1
    /\ sessions[s].proc = "none"

=============================================================================
